---------------------------- MODULE Spec2Model ----------------------------
(***************************************************************************)
(* Model of the two batch jobs of mi-2025-en-musica:                       *)
(*   scripts/fetch_spotify_metadata.py  (the metadata enricher)            *)
(*   scripts/generate_data.py           (the metrics calculator)           *)
(*                                                                         *)
(* JSON values are tagged records, so that an absent key, a null and a     *)
(* value of the expected type stay distinct.  A Python string is the       *)
(* sequence of its tokens; ":" is a token of its own, so that startswith   *)
(* and split(":") are computed on the text.  A dict is the sequence of its *)
(* (key, value) pairs in insertion order.  A function that can raise        *)
(* returns a record whose exc field names the exception ("" for none).     *)
(***************************************************************************)
EXTENDS Integers, Sequences, FiniteSets, TLC

(***************************************************************************)
(* Python / JSON values                                                    *)
(***************************************************************************)
Absent == [tag |-> "absent"]
Null == [tag |-> "null"]
JStr(s) == [tag |-> "str", v |-> s]
JInt(n) == [tag |-> "int", v |-> n]
JBool(b) == [tag |-> "bool", v |-> b]

\* item.get(key, default): the default only when the key is absent; a key
\* that is present with null yields null.
Get(item, key, default) ==
    IF item[key].tag = "absent" THEN default ELSE item[key]

\* Python truthiness of a JSON value.
Truthy(x) ==
    CASE x.tag = "null" -> FALSE
      [] x.tag = "absent" -> FALSE
      [] x.tag = "str" -> Len(x.v) > 0
      [] x.tag = "int" -> x.v # 0
      [] x.tag = "bool" -> x.v

\* Whether int + x is defined (x an int or a bool); None and str raise
\* TypeError.
Addable(x) == x.tag \in {"int", "bool"}

NumOf(x) == IF x.tag = "bool" THEN (IF x.v THEN 1 ELSE 0) ELSE x.v

(***************************************************************************)
(* dicts in insertion order                                                *)
(***************************************************************************)
DictHas(d, k) == \E i \in 1..Len(d) : d[i].k = k

DictIdx(d, k) == CHOOSE i \in 1..Len(d) : d[i].k = k

DictGet(d, k) == d[DictIdx(d, k)].v

\* d[k] = v: an existing key keeps its place, a new key goes last.
DictPut(d, k, v) ==
    IF DictHas(d, k)
    THEN [d EXCEPT ![DictIdx(d, k)] = [k |-> k, v |-> v]]
    ELSE Append(d, [k |-> k, v |-> v])

DictKeys(d) == [i \in 1..Len(d) |-> d[i].k]

DictValues(d) == [i \in 1..Len(d) |-> d[i].v]

KeySet(d) == {d[i].k : i \in 1..Len(d)}

Range(s) == {s[i] : i \in 1..Len(s)}

\* s[a:b] with 0-based a, b (a Python slice, clipped to the list).
Slice(s, a, b) ==
    LET hi == IF b < Len(s) THEN b ELSE Len(s)
    IN  IF a >= hi THEN <<>> ELSE [j \in 1..(hi - a) |-> s[a + j]]

\* TLC hands an operator its arguments unevaluated.  A loop's state is
\* evaluated before the next iteration, as the code does: Evaluated(x) is
\* TRUE, and computing it computes x.
Evaluated(x) == x = x

RECURSIVE Concat(_)
Concat(ss) == IF ss = <<>> THEN <<>> ELSE Head(ss) \o Concat(Tail(ss))

(***************************************************************************)
(* strings                                                                 *)
(***************************************************************************)
TRACK_URI_PREFIX == <<"spotify", ":", "track", ":">>

StartsWith(s, p) == Len(s) >= Len(p) /\ SubSeq(s, 1, Len(p)) = p

\* s.split(":")[-1]: the text after the last ":" (all of s without one).
LastSegment(s) ==
    LET colons == {i \in 1..Len(s) : s[i] = ":"}
        last == IF colons = {} THEN 0
                ELSE CHOOSE i \in colons : \A j \in colons : j <= i
    IN  SubSeq(s, last + 1, Len(s))

(***************************************************************************)
(* play events                                                             *)
(***************************************************************************)
EventFields ==
    {"ts", "ms_played", "spotify_track_uri", "master_metadata_track_name",
     "master_metadata_album_artist_name", "master_metadata_album_album_name",
     "skipped", "reason_end"}

Event(ts, ms, uri, track, artist, album, skipped, reason) ==
    [ts |-> ts, ms_played |-> ms, spotify_track_uri |-> uri,
     master_metadata_track_name |-> track,
     master_metadata_album_artist_name |-> artist,
     master_metadata_album_album_name |-> album,
     skipped |-> skipped, reason_end |-> reason]

(***************************************************************************)
(* fetch_spotify_metadata.py: extract_unique_tracks                        *)
(***************************************************************************)
NewTrackStat ==
    [ms_played |-> 0, play_count |-> 0, track_name |-> JStr(<<>>),
     artist_name |-> JStr(<<>>), album_name |-> JStr(<<>>)]

\* A bug: the last event's ms_played replaces the sum.
last_ms(total, ms) == NumOf(ms)

\* tracks[track_id]["ms_played"] += item.get("ms_played", 0)
accumulated_ms(total, ms) == total + NumOf(ms)

\* One iteration of the loop over history (lines 58-68).  acc = [exc, tracks].
extract_step(acc, item) ==
    LET uri == Get(item, "spotify_track_uri", Null)
    IN  IF acc.exc # "" THEN acc
        ELSE IF ~Truthy(uri) \/ ~StartsWith(uri.v, TRACK_URI_PREFIX) THEN acc
        ELSE
          LET track_id == LastSegment(uri.v)
              old == IF DictHas(acc.tracks, track_id)
                     THEN DictGet(acc.tracks, track_id) ELSE NewTrackStat
              ms == Get(item, "ms_played", JInt(0))
          IN  IF ~Addable(ms) THEN [exc |-> "TypeError", tracks |-> acc.tracks]
              ELSE [exc |-> "",
                    tracks |-> DictPut(acc.tracks, track_id,
                      [ms_played |-> accumulated_ms(old.ms_played, ms),
                       play_count |-> old.play_count + 1,
                       track_name |-> Get(item, "master_metadata_track_name", JStr(<<>>)),
                       artist_name |-> Get(item, "master_metadata_album_artist_name", JStr(<<>>)),
                       album_name |-> Get(item, "master_metadata_album_album_name", JStr(<<>>))])]

RECURSIVE extract_fold(_, _)
extract_fold(acc, history) ==
    IF history = <<>> \/ acc.exc # "" THEN acc
    ELSE extract_fold(extract_step(acc, Head(history)), Tail(history))

extract_unique_tracks(history) == extract_fold([exc |-> "", tracks |-> <<>>], history)

(***************************************************************************)
(* The catalog service (external).  Its content is the environment's:      *)
(* track number k has the id ToString(k), belongs to album (k+1) \div 2    *)
(* and lists artist k, and artist k+1 as well when k is odd; album b is by   *)
(* artist 2b and by artist 0, who is on no track.  The variable            *)
(* catalog says which ids the service does not know (it answers null in   *)
(* their place), which tracks it answers with the record of a relinked     *)
(* track (another id, album and artist), and which tracks carry no album.  *)
(***************************************************************************)
BATCH_SIZE == 50

HTTP_OK == 200

TrackId(k) == <<ToString(k)>>
TrackUri(k) == TRACK_URI_PREFIX \o TrackId(k)
AlbumId(b) == <<"album", ToString(b)>>
ArtistId(a) == <<"artist", ToString(a)>>
RelinkedId(k) == <<"relinked", ToString(k)>>

ArtistRef(a) == [id |-> ArtistId(a), name |-> <<"Artist", ToString(a)>>]

ArtistsOf(k) == IF k % 2 = 1 THEN <<ArtistRef(k), ArtistRef(k + 1)>> ELSE <<ArtistRef(k)>>

AlbumOf(k) ==
    LET b == (k + 1) \div 2
    IN  [tag |-> "object", id |-> JStr(AlbumId(b)), name |-> <<"Album", ToString(b)>>,
         artists |-> <<ArtistRef(2 * b), ArtistRef(0)>>]

CatalogTrack(cat, k) ==
    IF k \in cat.relinked
    THEN [tag |-> "object", id |-> RelinkedId(k), name |-> <<"Track", ToString(k)>>,
          album |-> [tag |-> "object", id |-> JStr(<<"album">> \o RelinkedId(k)),
                     name |-> <<"Album">> \o RelinkedId(k),
                     artists |-> <<[id |-> <<"artist">> \o RelinkedId(k),
                                    name |-> <<"Artist">> \o RelinkedId(k)]>>],
          artists |-> <<[id |-> <<"artist">> \o RelinkedId(k),
                         name |-> <<"Artist">> \o RelinkedId(k)]>>]
    ELSE [tag |-> "object", id |-> TrackId(k), name |-> <<"Track", ToString(k)>>,
          album |-> IF k \in cat.no_album THEN Absent ELSE AlbumOf(k),
          artists |-> ArtistsOf(k)]

\* The record, or null, the tracks endpoint answers for one requested id.
LookupTrack(cat, n, id) ==
    IF \E k \in 1..n : TrackId(k) = id /\ k \notin cat.unknown_tracks
    THEN CatalogTrack(cat, CHOOSE k \in 1..n : TrackId(k) = id)
    ELSE Null

\* The record, or null, the artists endpoint answers for one requested id.
LookupArtist(cat, id) ==
    IF id \in cat.unknown_artists THEN Null
    ELSE [tag |-> "object", id |-> id, name |-> <<"Artist">> \o Tail(id),
          followers |-> Len(id)]

\* GET /v1/tracks?ids=...: a status and, with 200, one entry per requested id.
TracksEndpoint(cat, n, ids, status) ==
    [status_code |-> status,
     tracks |-> IF status = HTTP_OK
                THEN [j \in 1..Len(ids) |-> LookupTrack(cat, n, ids[j])] ELSE <<>>]

\* GET /v1/artists?ids=...
ArtistsEndpoint(cat, ids, status) ==
    [status_code |-> status,
     artists |-> IF status = HTTP_OK
                 THEN [j \in 1..Len(ids) |-> LookupArtist(cat, ids[j])] ELSE <<>>]

(***************************************************************************)
(* fetch_spotify_metadata.py: the batch fetchers                           *)
(***************************************************************************)
\* The ids a fetcher puts in its request: track_ids[:50].
request_ids(ids) == Slice(ids, 0, BATCH_SIZE)

\* What fetch_tracks_batch returns for the response it got.
fetch_tracks_batch(track_ids, response) ==
    IF track_ids = <<>> THEN <<>>
    ELSE IF response.status_code # HTTP_OK THEN <<>>
    ELSE response.tracks

fetch_artists_batch(artist_ids, response) ==
    IF artist_ids = <<>> THEN <<>>
    ELSE IF response.status_code # HTTP_OK THEN <<>>
    ELSE response.artists

\* A bug: a failed batch is requested again.
retry_batch_start(i, response) ==
    IF response.status_code = HTTP_OK THEN i + BATCH_SIZE ELSE i

\* A bug: each batch starts on the last id of the batch before it.
overlapping_batch_start(i, response) == i + BATCH_SIZE - 1

\* range(0, len(ids), 50): the start of the batch after the one at i.
next_batch_start(i, response) == i + BATCH_SIZE

(***************************************************************************)
(* fetch_spotify_metadata.py: main, the enrichment of the fetched tracks   *)
(***************************************************************************)
RECURSIVE collect_artists(_, _)
collect_artists(artists_map0, artists) ==
    IF artists = <<>> \/ ~Evaluated(artists_map0) THEN artists_map0
    ELSE collect_artists(DictPut(artists_map0, Head(artists).id, Head(artists).name),
                         Tail(artists))

\* A bug: the artists of the track's album are collected with the track's own.
track_artists_with_album(track) ==
    track.artists \o (IF track.album.tag = "absent" THEN <<>> ELSE track.album.artists)

\* track.get("artists", []) of line 146: the artists whose ids are collected.
track_artists(track) == track.artists

\* A bug: only the first album met is stored.
stores_first_album(albums_map0, album_id) ==
    Truthy(album_id) /\ albums_map0 = <<>>

\* album.get("id") of track.get("album", {}).
album_id_of(track) == IF track.album.tag = "absent" THEN Null ELSE track.album.id

new_album(album) ==
    [id |-> album.id.v, name |-> album.name,
     artist_ids |-> [j \in 1..Len(album.artists) |-> album.artists[j].id],
     artist_names |-> [j \in 1..Len(album.artists) |-> album.artists[j].name],
     ms_played |-> Absent, play_count |-> Absent]

\* Whether the loop stores the track's album: a truthy id not stored yet.
stores_album(albums_map0, album_id) ==
    Truthy(album_id) /\ ~DictHas(albums_map0, album_id.v)

\* One iteration of the loop over all_track_data (lines 138-178).
\* st = [artists_map, albums_map, tracks_enriched].
enrich_step(st, track, unique) ==
    IF track.tag = "null" THEN st
    ELSE
      LET track_id == track.id
          known == DictHas(unique, track_id)
          album_id == album_id_of(track)
      IN  [artists_map |-> collect_artists(st.artists_map, track_artists(track)),
           albums_map |->
             IF stores_album(st.albums_map, album_id)
             THEN DictPut(st.albums_map, album_id.v, new_album(track.album))
             ELSE st.albums_map,
           tracks_enriched |-> Append(st.tracks_enriched,
             [id |-> track_id, name |-> track.name, album_id |-> album_id,
              artist_ids |-> [j \in 1..Len(track.artists) |-> track.artists[j].id],
              artist_names |-> [j \in 1..Len(track.artists) |-> track.artists[j].name],
              ms_played |-> IF known THEN DictGet(unique, track_id).ms_played ELSE 0,
              play_count |-> IF known THEN DictGet(unique, track_id).play_count ELSE 0])]

RECURSIVE enrich_fold(_, _, _)
enrich_fold(st, tracks, unique) ==
    IF tracks = <<>> \/ ~Evaluated(st) THEN st
    ELSE enrich_fold(enrich_step(st, Head(tracks), unique), Tail(tracks), unique)

enrich_tracks(tracks, unique) ==
    enrich_fold([artists_map |-> <<>>, albums_map |-> <<>>, tracks_enriched |-> <<>>],
                tracks, unique)

\* One iteration of the loop over artists_data (lines 190-199).
RECURSIVE store_artists(_, _)
store_artists(enriched, artists_data) ==
    IF artists_data = <<>> \/ ~Evaluated(enriched) THEN enriched
    ELSE LET artist == Head(artists_data)
         IN  store_artists(
               IF artist.tag = "null" THEN enriched
               ELSE DictPut(enriched, artist.id,
                      [id |-> artist.id, name |-> artist.name,
                       followers |-> artist.followers,
                       ms_played |-> Absent, play_count |-> Absent]),
               Tail(artists_data))

(***************************************************************************)
(* fetch_spotify_metadata.py: main, the listening stats of albums/artists  *)
(***************************************************************************)
add_stat(stats, key, track) ==
    LET old == IF DictHas(stats, key) THEN DictGet(stats, key)
               ELSE [ms_played |-> 0, play_count |-> 0]
    IN  DictPut(stats, key, [ms_played |-> old.ms_played + track.ms_played,
                             play_count |-> old.play_count + track.play_count])

RECURSIVE album_stats_of(_, _)
album_stats_of(stats, tracks) ==
    IF tracks = <<>> \/ ~Evaluated(stats) THEN stats
    ELSE album_stats_of(
           IF Truthy(Head(tracks).album_id)
           THEN add_stat(stats, Head(tracks).album_id.v, Head(tracks)) ELSE stats,
           Tail(tracks))

\* A bug: a track counts toward the first of its artists only.
add_first_artist(stats, ids, track) ==
    IF ids = <<>> THEN stats ELSE add_stat(stats, Head(ids), track)

RECURSIVE add_track_artists(_, _, _)
add_track_artists(stats, ids, track) ==
    IF ids = <<>> \/ ~Evaluated(stats) THEN stats
    ELSE add_track_artists(add_stat(stats, Head(ids), track), Tail(ids), track)

RECURSIVE artist_stats_of(_, _)
artist_stats_of(stats, tracks) ==
    IF tracks = <<>> \/ ~Evaluated(stats) THEN stats
    ELSE artist_stats_of(add_track_artists(stats, Head(tracks).artist_ids, Head(tracks)),
                         Tail(tracks))

\* for key, stats in stats.items(): if key in records: records[key] gets the
\* two fields (lines 211-214 and 223-226).
RECURSIVE merge_stats(_, _)
merge_stats(records, stats) ==
    IF stats = <<>> \/ ~Evaluated(records) THEN records
    ELSE LET key == Head(stats).k
         IN  merge_stats(
               IF DictHas(records, key)
               THEN DictPut(records, key,
                      [DictGet(records, key) EXCEPT
                         !.ms_played = JInt(Head(stats).v.ms_played),
                         !.play_count = JInt(Head(stats).v.play_count)])
               ELSE records,
               Tail(stats))

build_output(tracks, albums, artists) ==
    [tracks |-> tracks, albums |-> DictValues(albums), artists |-> DictValues(artists),
     metadata |-> [total_tracks |-> Len(tracks), total_albums |-> Len(albums),
                   total_artists |-> Len(artists)]]

(***************************************************************************)
(* generate_data.py: numbers.  Durations are integers of milliseconds; a   *)
(* value rounded to one decimal is held in tenths, one rounded to two in   *)
(* hundredths.  round() on a float rounds the exact quotient to the        *)
(* nearest, a tie to even, wherever the float division is exact or no tie  *)
(* is near; that is the case of every quotient of the model's logs         *)
(* (ms_played a multiple of 900000, fewer than 40 plays) but of delta_pct, *)
(* whose float ties are tabulated.                                         *)
(***************************************************************************)
RoundHalfEven(n, d) ==
    LET q == n \div d
        r == n - q * d
    IN  IF 2 * r < d THEN q
        ELSE IF 2 * r > d THEN q + 1
        ELSE IF q % 2 = 0 THEN q ELSE q + 1

\* round(ms / 60000)
minutes_of(ms) == RoundHalfEven(ms, 60000)

\* round(ms / 3600000, 1), in tenths of an hour
hours_of(ms) == RoundHalfEven(ms, 360000)

\* round(ms / 86400000, 1), in tenths of a day
days_of(ms) == RoundHalfEven(ms, 8640000)

\* round(ms / max_ms * 100)
pct_of(ms, max_ms) == RoundHalfEven(100 * ms, max_ms)

\* The pairs (hours, prev_hours), in tenths up to 4.0 h, at which the float
\* (hours - prev_hours) / prev_hours * 100 misses its tie and round() gives
\* the odd neighbour.
FloatTiesToOdd ==
    {<<7, 8>>, <<14, 16>>, <<15, 8>>, <<17, 40>>, <<19, 8>>, <<23, 8>>, <<23, 40>>,
     <<27, 24>>, <<28, 32>>, <<30, 16>>, <<31, 8>>, <<37, 8>>, <<37, 40>>, <<38, 16>>,
     <<39, 8>>, <<39, 40>>}

\* round((hours - prev_hours) / prev_hours * 100) if prev_hours > 0 else 0
delta_pct_of(hours, prev_hours) ==
    IF prev_hours > 0
    THEN LET n == 100 * (hours - prev_hours)
             even == RoundHalfEven(n, prev_hours)
         IN  IF <<hours, prev_hours>> \in FloatTiesToOdd
             THEN (IF even = n \div prev_hours THEN even + 1 ELSE even - 1)
             ELSE even
    ELSE 0

(***************************************************************************)
(* generate_data.py: utc_to_pacific.  A timestamp "YYYY-MM-DDTHH:00:00Z"   *)
(* of 2025 is the text <<year, month, day, hour>>; America/Los_Angeles is  *)
(* UTC-8, and UTC-7 from 2025-03-09 10:00 UTC to 2025-11-02 09:00 UTC.     *)
(***************************************************************************)
DaysBefore == <<0, 31, 59, 90, 120, 151, 181, 212, 243, 273, 304, 334, 365>>

\* Hours from 2025-01-01T00:00Z to the instant the text names.
utc_hours(ts) == (DaysBefore[ts[2]] + ts[3] - 1) * 24 + ts[4]

PacificOffset(h) ==
    IF h >= (DaysBefore[3] + 8) * 24 + 10 /\ h < (DaysBefore[11] + 1) * 24 + 9
    THEN 7 ELSE 8

\* datetime.fromisoformat(ts).astimezone(PACIFIC): the civil fields.
utc_to_pacific(ts) ==
    LET local == utc_hours(ts) - PacificOffset(utc_hours(ts))
        d == local \div 24
        m == IF d < 0 THEN 12
             ELSE CHOOSE k \in 1..12 : DaysBefore[k] <= d /\ d < DaysBefore[k + 1]
        y == IF d < 0 THEN ts[1] - 1 ELSE ts[1]
        dom == IF d < 0 THEN 32 + d ELSE d - DaysBefore[m] + 1
    IN  [year |-> y, month |-> m, day |-> dom, hour |-> local % 24,
         \* weekday(): 0 = Monday; 2025-01-01 is a Wednesday
         weekday |-> (d + 2) % 7,
         date |-> <<y, m, dom>>]

(***************************************************************************)
(* generate_data.py: loops and sorts                                       *)
(***************************************************************************)
\* for item in data: acc = Op(acc, item), until an exception is raised.
RECURSIVE Fold(_, _, _)
Fold(Op(_, _), acc, data) ==
    IF data = <<>> \/ acc.exc # "" THEN acc
    ELSE Fold(Op, Op(acc, Head(data)), Tail(data))

Raise(acc, exc) == [acc EXCEPT !.exc = exc]

\* sorted(..., reverse=True): x goes after the elements whose key is not
\* smaller (the sort is stable, equal keys keep their order).
RECURSIVE InsertDesc(_, _, _)
InsertDesc(Key(_), sorted, x) ==
    IF sorted = <<>> THEN <<x>>
    ELSE IF Key(Head(sorted)) >= Key(x)
         THEN <<Head(sorted)>> \o InsertDesc(Key, Tail(sorted), x)
         ELSE <<x>> \o sorted

RECURSIVE SortedDesc(_, _, _)
SortedDesc(Key(_), sorted, rest) ==
    IF rest = <<>> \/ ~Evaluated(sorted) THEN sorted
    ELSE SortedDesc(Key, InsertDesc(Key, sorted, Head(rest)), Tail(rest))

\* sorted(...) on distinct keys, ascending.
RECURSIVE InsertAsc(_, _, _)
InsertAsc(Key(_), sorted, x) ==
    IF sorted = <<>> THEN <<x>>
    ELSE IF Key(Head(sorted)) <= Key(x)
         THEN <<Head(sorted)>> \o InsertAsc(Key, Tail(sorted), x)
         ELSE <<x>> \o sorted

RECURSIVE SortedAsc(_, _, _)
SortedAsc(Key(_), sorted, rest) ==
    IF rest = <<>> \/ ~Evaluated(sorted) THEN sorted
    ELSE SortedAsc(Key, InsertAsc(Key, sorted, Head(rest)), Tail(rest))

\* max(list, key=...): the first element with the largest key.
FirstMax(Key(_), list) ==
    list[CHOOSE j \in 1..Len(list) :
           /\ \A k \in 1..Len(list) : Key(list[k]) <= Key(list[j])
           /\ \A k \in 1..(j - 1) : Key(list[k]) < Key(list[j])]

MsKey(entry) == entry.v.ms

(***************************************************************************)
(* generate_data.py: calculate_overview                                    *)
(***************************************************************************)
\* sum(item.get("ms_played", 0) for item in data)
overview_sum_step(acc, item) ==
    LET ms == Get(item, "ms_played", JInt(0))
    IN  IF ~Addable(ms) THEN Raise(acc, "TypeError")
        ELSE [acc EXCEPT !.total_ms = @ + NumOf(ms)]

overview_count_step(acc, item) ==
    LET artist == Get(item, "master_metadata_album_artist_name", Null)
        uri == Get(item, "spotify_track_uri", Null)
    IN  [acc EXCEPT !.artists = IF Truthy(artist) THEN @ \cup {artist} ELSE @,
                    !.tracks = IF Truthy(uri) THEN @ \cup {uri} ELSE @]

calculate_overview(data) ==
    LET s == Fold(overview_sum_step, [exc |-> "", total_ms |-> 0], data)
        c == Fold(overview_count_step, [exc |-> "", artists |-> {}, tracks |-> {}], data)
    IN  IF s.exc # "" THEN [exc |-> s.exc, value |-> Null]
        ELSE [exc |-> "",
              value |-> [total_plays |-> Len(data),
                         total_minutes |-> minutes_of(s.total_ms),
                         total_hours |-> hours_of(s.total_ms),
                         total_days |-> days_of(s.total_ms),
                         unique_artists |-> Cardinality(c.artists),
                         unique_tracks |-> Cardinality(c.tracks)]]

(***************************************************************************)
(* generate_data.py: calculate_top_artists, calculate_top_tracks           *)
(***************************************************************************)
TOP_LIMIT == 5

\* One iteration of the loop of calculate_top_artists.  acc = [exc, time].
top_artists_step(acc, item) ==
    LET artist == Get(item, "master_metadata_album_artist_name", Null)
        ms == Get(item, "ms_played", JInt(0))
        old == IF DictHas(acc.time, artist.v) THEN DictGet(acc.time, artist.v)
               ELSE [ms |-> 0, plays |-> 0]
    IN  IF ~Truthy(artist) THEN acc
        ELSE IF ~Addable(ms) THEN Raise(acc, "TypeError")
        ELSE [acc EXCEPT !.time = DictPut(@, artist.v,
                                   [ms |-> old.ms + NumOf(ms), plays |-> old.plays + 1])]

\* "|||".join of the two names
TrackKey(track, artist) == track \o <<"|||">> \o artist

top_tracks_step(acc, item) ==
    LET track == Get(item, "master_metadata_track_name", Null)
        artist == Get(item, "master_metadata_album_artist_name", Null)
        ms == Get(item, "ms_played", JInt(0))
        key == TrackKey(track.v, artist.v)
        old == IF DictHas(acc.time, key) THEN DictGet(acc.time, key)
               ELSE [ms |-> 0, plays |-> 0, artist |-> <<>>, name |-> <<>>]
    IN  IF ~(Truthy(track) /\ Truthy(artist)) THEN acc
        ELSE IF ~Addable(ms) THEN Raise(acc, "TypeError")
        ELSE [acc EXCEPT !.time = DictPut(@, key,
                                   [ms |-> old.ms + NumOf(ms), plays |-> old.plays + 1,
                                    artist |-> artist.v, name |-> track.v])]

\* A bug: the first entries of the dict are taken, unsorted.
top_in_log_order(time, limit) == Slice(time, 0, limit)

\* sorted(time.items(), key=lambda x: x[1]["ms"], reverse=True)[:limit]
top_of(time, limit) == Slice(SortedDesc(MsKey, <<>>, time), 0, limit)

\* top[0][1]["ms"] if top else 1
max_ms_of(top) == IF top # <<>> THEN top[1].v.ms ELSE 1

\* The list comprehension dividing by max_ms: raises when max_ms is 0 and
\* there is an entry to compute.
top_artists_result(acc, limit) ==
    LET top == top_of(acc.time, limit)
        max_ms == max_ms_of(top)
    IN  IF acc.exc # "" THEN [exc |-> acc.exc, value |-> Null]
        ELSE IF top # <<>> /\ max_ms = 0 THEN [exc |-> "ZeroDivisionError", value |-> Null]
        ELSE [exc |-> "",
              value |-> [j \in 1..Len(top) |->
                 [artist |-> top[j].k, minutes |-> minutes_of(top[j].v.ms),
                  hours |-> hours_of(top[j].v.ms), plays |-> top[j].v.plays,
                  pct |-> pct_of(top[j].v.ms, max_ms)]]]

top_tracks_result(acc, limit) ==
    LET top == top_of(acc.time, limit)
        max_ms == max_ms_of(top)
    IN  IF acc.exc # "" THEN [exc |-> acc.exc, value |-> Null]
        ELSE IF top # <<>> /\ max_ms = 0 THEN [exc |-> "ZeroDivisionError", value |-> Null]
        ELSE [exc |-> "",
              value |-> [j \in 1..Len(top) |->
                 [track |-> top[j].v.name, artist |-> top[j].v.artist,
                  minutes |-> minutes_of(top[j].v.ms), hours |-> hours_of(top[j].v.ms),
                  plays |-> top[j].v.plays, pct |-> pct_of(top[j].v.ms, max_ms)]]]

NoTime == [exc |-> "", time |-> <<>>]

calculate_top_artists(data, limit) ==
    top_artists_result(Fold(top_artists_step, NoTime, data), limit)

calculate_top_tracks(data, limit) ==
    top_tracks_result(Fold(top_tracks_step, NoTime, data), limit)

(***************************************************************************)
(* generate_data.py: the heatmaps and calculate_hourly_distribution        *)
(***************************************************************************)
\* heatmap[key] += 1 for an event with a timestamp
count_step(KeyOf(_), acc, item) ==
    LET ts == Get(item, "ts", Null)
        key == KeyOf(utc_to_pacific(ts.v))
    IN  IF ~Truthy(ts) THEN acc
        ELSE [acc EXCEPT !.counts =
                DictPut(@, key, IF DictHas(@, key) THEN DictGet(@, key) + 1 ELSE 1)]

MonthHour(p) == <<p.month, p.hour>>
MonthWeekdayHour(p) == <<p.month, p.weekday, p.hour>>
MonthDayHour(p) == <<p.month, p.day, p.hour>>
HourOf(p) == p.hour

hourly_heatmap_step(acc, item) == count_step(MonthHour, acc, item)
weekday_hour_heatmap_step(acc, item) == count_step(MonthWeekdayHour, acc, item)
day_hour_heatmap_step(acc, item) == count_step(MonthDayHour, acc, item)

NoCounts == [exc |-> "", counts |-> <<>>]

calculate_hourly_heatmap(data) ==
    LET h == Fold(hourly_heatmap_step, NoCounts, data).counts
    IN  [exc |-> "",
         value |-> [j \in 1..Len(h) |->
                      [month |-> h[j].k[1], hour |-> h[j].k[2], plays |-> h[j].v]]]

calculate_weekday_hour_heatmap(data) ==
    LET h == Fold(weekday_hour_heatmap_step, NoCounts, data).counts
    IN  [exc |-> "",
         value |-> [j \in 1..Len(h) |->
                      [month |-> h[j].k[1], weekday |-> h[j].k[2], hour |-> h[j].k[3],
                       plays |-> h[j].v]]]

calculate_day_hour_heatmap(data) ==
    LET h == Fold(day_hour_heatmap_step, NoCounts, data).counts
    IN  [exc |-> "",
         value |-> [j \in 1..Len(h) |->
                      [month |-> h[j].k[1], day |-> h[j].k[2], hour |-> h[j].k[3],
                       plays |-> h[j].v]]]

\* One iteration of a loop that sums plays and ms under a key of the
\* event's Pacific time (hour of day, month, day of the year).
plays_ms_step(KeyOf(_), acc, item) ==
    LET ts == Get(item, "ts", Null)
        ms == Get(item, "ms_played", JInt(0))
        key == KeyOf(utc_to_pacific(ts.v))
        old == IF DictHas(acc.stats, key) THEN DictGet(acc.stats, key)
               ELSE [plays |-> 0, ms |-> 0]
    IN  IF ~Truthy(ts) THEN acc
        ELSE IF ~Addable(ms) THEN Raise(acc, "TypeError")
        ELSE [acc EXCEPT !.stats =
                DictPut(@, key, [plays |-> old.plays + 1, ms |-> old.ms + NumOf(ms)])]

NoStats == [exc |-> "", stats |-> <<>>]

DictKey(entry) == entry.k

hourly_distribution_step(acc, item) == plays_ms_step(HourOf, acc, item)

calculate_hourly_distribution(data) ==
    LET acc == Fold(hourly_distribution_step, NoStats, data)
        hours == SortedAsc(DictKey, <<>>, acc.stats)
    IN  IF acc.exc # "" THEN [exc |-> acc.exc, value |-> Null]
        ELSE [exc |-> "",
              value |-> [j \in 1..Len(hours) |->
                 [hour |-> hours[j].k, plays |-> hours[j].v.plays,
                  minutes |-> minutes_of(hours[j].v.ms)]]]

(***************************************************************************)
(* generate_data.py: calculate_weekday_vs_weekend                          *)
(***************************************************************************)
\* A bug: Saturday is counted as a weekday.
weekend_is_sunday(p) == p.weekday >= 6

\* dt_pacific.weekday() >= 5
is_weekend(p) == p.weekday >= 5

NoBucket == [plays |-> 0, ms |-> 0, artists |-> {}, days |-> {}]

add_to_bucket(bucket, p, ms, artist) ==
    [plays |-> bucket.plays + 1, ms |-> bucket.ms + ms,
     days |-> bucket.days \cup {p.date},
     artists |-> IF Truthy(artist) THEN bucket.artists \cup {artist.v} ELSE bucket.artists]

add_artist_ms(artists, artist, ms) ==
    IF ~Truthy(artist) THEN artists
    ELSE DictPut(artists, artist.v,
                 (IF DictHas(artists, artist.v) THEN DictGet(artists, artist.v) ELSE 0) + ms)

\* One iteration of the loop of calculate_weekday_vs_weekend.
weekday_weekend_step(acc, item) ==
    LET ts == Get(item, "ts", Null)
        artist == Get(item, "master_metadata_album_artist_name", Null)
        ms == Get(item, "ms_played", JInt(0))
        p == utc_to_pacific(ts.v)
    IN  IF ~Truthy(ts) THEN acc
        ELSE IF ~Addable(ms) THEN Raise(acc, "TypeError")
        ELSE IF is_weekend(p)
        THEN [acc EXCEPT !.weekend = add_to_bucket(@, p, NumOf(ms), artist),
                         !.weekend_artists = add_artist_ms(@, artist, NumOf(ms))]
        ELSE [acc EXCEPT !.weekday = add_to_bucket(@, p, NumOf(ms), artist),
                         !.weekday_artists = add_artist_ms(@, artist, NumOf(ms))]

NoBuckets ==
    [exc |-> "", weekday |-> NoBucket, weekend |-> NoBucket,
     weekday_artists |-> <<>>, weekend_artists |-> <<>>]

ValueKey(entry) == entry.v

bucket_summary(bucket, artists) ==
    LET days == IF Cardinality(bucket.days) # 0 THEN Cardinality(bucket.days) ELSE 1
        top == Slice(SortedDesc(ValueKey, <<>>, artists), 0, 3)
    IN  [total_hours |-> hours_of(bucket.ms),
         total_plays |-> bucket.plays,
         days_count |-> days,
         \* round(ms / 3600000 / days, 2), in hundredths
         avg_hours_per_day |-> RoundHalfEven(bucket.ms, 36000 * days),
         \* round(plays / days, 1), in tenths
         avg_plays_per_day |-> RoundHalfEven(10 * bucket.plays, days),
         unique_artists |-> Cardinality(bucket.artists),
         top_artists |-> [j \in 1..Len(top) |->
                            [artist |-> top[j].k, minutes |-> minutes_of(top[j].v)]]]

weekday_weekend_result(acc) ==
    IF acc.exc # "" THEN [exc |-> acc.exc, value |-> Null]
    ELSE [exc |-> "",
          value |-> [weekday |-> bucket_summary(acc.weekday, acc.weekday_artists),
                     weekend |-> bucket_summary(acc.weekend, acc.weekend_artists)]]

calculate_weekday_vs_weekend(data) ==
    weekday_weekend_result(Fold(weekday_weekend_step, NoBuckets, data))

(***************************************************************************)
(* generate_data.py: calculate_skipped_tracks                              *)
(***************************************************************************)
MIN_PLAYS == 10

SKIPPED_LIMIT == 10

\* skipped or reason_end in ["fwdbtn", "backbtn"]
counts_as_skip(skipped, reason_end) ==
    \/ Truthy(skipped)
    \/ (reason_end.tag = "str" /\ reason_end.v \in {<<"fwdbtn">>, <<"backbtn">>})

\* One iteration of the first loop of calculate_skipped_tracks.
skipped_step(acc, item) ==
    LET track == Get(item, "master_metadata_track_name", Null)
        artist == Get(item, "master_metadata_album_artist_name", Null)
        skipped == Get(item, "skipped", JBool(FALSE))
        reason_end == Get(item, "reason_end", JStr(<<>>))
        key == TrackKey(track.v, artist.v)
        old == IF DictHas(acc.stats, key) THEN DictGet(acc.stats, key)
               ELSE [total_plays |-> 0, skipped |-> 0, name |-> <<>>, artist |-> <<>>]
    IN  IF ~(Truthy(track) /\ Truthy(artist)) THEN acc
        ELSE [acc EXCEPT !.stats = DictPut(@, key,
                [total_plays |-> old.total_plays + 1,
                 skipped |-> old.skipped + (IF counts_as_skip(skipped, reason_end) THEN 1 ELSE 0),
                 name |-> track.v, artist |-> artist.v])]

\* A bug: a track skipped in exactly 30 % of its plays is kept.
candidate_at_thirty_percent(stats, min_plays) ==
    stats.total_plays >= min_plays /\ 10 * stats.skipped >= 3 * stats.total_plays

\* stats["total_plays"] >= min_plays and skipped / total_plays > 0.3
is_candidate(stats, min_plays) ==
    stats.total_plays >= min_plays /\ 10 * stats.skipped > 3 * stats.total_plays

\* round(skip_rate * 100)
skip_rate_of(stats) == RoundHalfEven(100 * stats.skipped, stats.total_plays)

RECURSIVE skipped_candidates(_, _)
skipped_candidates(track_stats, min_plays) ==
    IF track_stats = <<>> THEN <<>>
    ELSE (IF is_candidate(Head(track_stats).v, min_plays)
          THEN <<[track |-> Head(track_stats).v.name, artist |-> Head(track_stats).v.artist,
                  total_plays |-> Head(track_stats).v.total_plays,
                  skipped |-> Head(track_stats).v.skipped,
                  skip_rate |-> skip_rate_of(Head(track_stats).v)]>>
          ELSE <<>>)
         \o skipped_candidates(Tail(track_stats), min_plays)

SkipRateKey(c) == c.skip_rate

skipped_result(acc, min_plays, limit) ==
    [exc |-> "",
     value |-> Slice(SortedDesc(SkipRateKey, <<>>, skipped_candidates(acc.stats, min_plays)),
                     0, limit)]

calculate_skipped_tracks(data, min_plays, limit) ==
    skipped_result(Fold(skipped_step, NoStats, data), min_plays, limit)

(***************************************************************************)
(* generate_data.py: calculate_monthly_trend                               *)
(***************************************************************************)
MonthOf(p) == p.month

monthly_step(acc, item) == plays_ms_step(MonthOf, acc, item)

month_names ==
    <<"Ene", "Feb", "Mar", "Abr", "May", "Jun", "Jul", "Ago", "Sep", "Oct", "Nov", "Dic">>

\* The entries in month order, before the deltas.
monthly_entries(months) ==
    LET sorted == SortedAsc(DictKey, <<>>, months)
    IN  [j \in 1..Len(sorted) |->
           [month |-> sorted[j].k, month_name |-> month_names[sorted[j].k],
            plays |-> sorted[j].v.plays, hours |-> hours_of(sorted[j].v.ms)]]

\* A bug: every delta is taken against the first month.
first_entry(result, j) == result[1]

\* result[i - 1]: the entry the delta of entry i is taken against.
previous_entry(result, j) == result[j - 1]

\* round(r["hours"] - prev_hours, 1), in tenths: the float difference of two
\* one-decimal values is within rounding of the exact one.
delta_of(hours, prev_hours) == hours - prev_hours

\* The loop that adds delta and delta_pct (lines 316-323).
with_deltas(result) ==
    [j \in 1..Len(result) |->
       IF j = 1
       THEN [month |-> result[j].month, month_name |-> result[j].month_name,
             plays |-> result[j].plays, hours |-> result[j].hours,
             delta |-> 0, delta_pct |-> 0]
       ELSE [month |-> result[j].month, month_name |-> result[j].month_name,
             plays |-> result[j].plays, hours |-> result[j].hours,
             delta |-> delta_of(result[j].hours, previous_entry(result, j).hours),
             delta_pct |-> delta_pct_of(result[j].hours, previous_entry(result, j).hours)]]

HoursKey(r) == r.hours
DeltaKey(r) == r.delta

\* is_peak and is_inflection (lines 325-331).
with_marks(result) ==
    [j \in 1..Len(result) |->
       [month |-> result[j].month, month_name |-> result[j].month_name,
        plays |-> result[j].plays, hours |-> result[j].hours,
        delta |-> result[j].delta, delta_pct |-> result[j].delta_pct,
        is_peak |-> result[j].month = FirstMax(HoursKey, result).month,
        is_inflection |-> result[j].month = FirstMax(DeltaKey, result).month]]

monthly_result(acc) ==
    IF acc.exc # "" THEN [exc |-> acc.exc, value |-> Null]
    ELSE [exc |-> "", value |-> with_marks(with_deltas(monthly_entries(acc.stats)))]

calculate_monthly_trend(data) == monthly_result(Fold(monthly_step, NoStats, data))

(***************************************************************************)
(* generate_data.py: calculate_special_days                                *)
(***************************************************************************)
BIRTHDAY == <<4, 6>>

MEXICAN_HOLIDAYS ==
    << <<1, 1>>, <<2, 5>>, <<3, 21>>, <<5, 1>>, <<5, 5>>, <<9, 16>>, <<11, 2>>,
       <<11, 20>>, <<12, 25>> >>

MonthDay(p) == <<p.month, p.day>>

special_days_step(acc, item) == plays_ms_step(MonthDay, acc, item)

special_entry(key, date, daily_stats) ==
    IF DictHas(daily_stats, date)
    THEN <<[k |-> key,
            v |-> [date |-> date, plays |-> DictGet(daily_stats, date).plays,
                   minutes |-> minutes_of(DictGet(daily_stats, date).ms)]]>>
    ELSE <<>>

special_days_result(acc) ==
    IF acc.exc # "" THEN [exc |-> acc.exc, value |-> Null]
    ELSE [exc |-> "",
          value |-> special_entry(<<"birthday">>, BIRTHDAY, acc.stats)
                    \o Concat([j \in 1..Len(MEXICAN_HOLIDAYS) |->
                         special_entry(<<"mx", ToString(MEXICAN_HOLIDAYS[j][1]),
                                         ToString(MEXICAN_HOLIDAYS[j][2])>>,
                                       MEXICAN_HOLIDAYS[j], acc.stats)])]

calculate_special_days(data) == special_days_result(Fold(special_days_step, NoStats, data))

(***************************************************************************)
(* generate_data.py: find_peak_hours                                       *)
(***************************************************************************)
peak_hours_step(acc, item) == count_step(HourOf, acc, item)

SeqMin(list) == CHOOSE x \in Range(list) : \A y \in Range(list) : x <= y
SeqMax(list) == CHOOSE x \in Range(list) : \A y \in Range(list) : x >= y

Identity(x) == x

\* sorted_hours[0][0] if sorted_hours else 0
peak_hour_of(sorted_hours) == IF sorted_hours # <<>> THEN sorted_hours[1].k ELSE 0

\* The returned dict: min(top_hours) raises ValueError on an empty list.
peak_hours_result(acc) ==
    LET sorted_hours == SortedDesc(ValueKey, <<>>, acc.counts)
        peak_hour == peak_hour_of(sorted_hours)
        top_hours == DictKeys(Slice(sorted_hours, 0, 5))
    IN  IF top_hours = <<>> THEN [exc |-> "ValueError", value |-> Null]
        ELSE [exc |-> "",
              value |-> [peak_hour |-> peak_hour,
                         top_hours |-> SortedAsc(Identity, <<>>, top_hours),
                         description |-> <<SeqMin(top_hours), SeqMax(top_hours)>>]]

find_peak_hours(data) == peak_hours_result(Fold(peak_hours_step, NoCounts, data))

(***************************************************************************)
(* generate_data.py: main.  The calls in the order main makes them.        *)
(***************************************************************************)
\* The keys of dashboard_data computed by a call, in the order of the dict.
MetricNames ==
    <<"overview", "top_artists", "top_tracks", "hourly_heatmap",
      "weekday_hour_heatmap", "day_hour_heatmap", "hourly_distribution",
      "weekday_vs_weekend", "skipped_tracks", "monthly_trend", "special_days">>

Metric(name, data) ==
    CASE name = "overview" -> calculate_overview(data)
      [] name = "top_artists" -> calculate_top_artists(data, TOP_LIMIT)
      [] name = "top_tracks" -> calculate_top_tracks(data, TOP_LIMIT)
      [] name = "hourly_heatmap" -> calculate_hourly_heatmap(data)
      [] name = "weekday_hour_heatmap" -> calculate_weekday_hour_heatmap(data)
      [] name = "day_hour_heatmap" -> calculate_day_hour_heatmap(data)
      [] name = "hourly_distribution" -> calculate_hourly_distribution(data)
      [] name = "weekday_vs_weekend" -> calculate_weekday_vs_weekend(data)
      [] name = "skipped_tracks" -> calculate_skipped_tracks(data, MIN_PLAYS, SKIPPED_LIMIT)
      [] name = "monthly_trend" -> calculate_monthly_trend(data)
      [] name = "special_days" -> calculate_special_days(data)

(***************************************************************************)
(* The run of the metadata enricher (fetch_spotify_metadata.py, main)      *)
(***************************************************************************)
VARIABLES
    history,          \* the play-event log read from DATA_FILE
    catalog,          \* the catalog service's content (environment)
    pc,               \* where main is: start, token, tracks, artists, done, raised
    unique_tracks,    \* extract_unique_tracks(history)
    track_ids,        \* list(unique_tracks.keys())
    i,                \* the batch loops' index
    all_track_data,   \* the records the track batches returned
    requests,         \* the requests sent to the catalog service, in order
    artists_map, albums_map, tracks_enriched,
    artist_ids,       \* list(artists_map.keys())
    artists_enriched,
    output            \* what is written to OUTPUT_FILE

enricher_vars ==
    <<history, catalog, pc, unique_tracks, track_ids, i, all_track_data, requests,
      artists_map, albums_map, tracks_enriched, artist_ids, artists_enriched, output>>

(***************************************************************************)
(* The run of the metrics calculator (generate_data.py, main) and the      *)
(* loops of its functions                                                  *)
(***************************************************************************)
VARIABLES
    data,             \* the play-event log read from DATA_FILE
    mpc,              \* where main is: start, build, write, done, raised
    peak_info,        \* find_peak_hours(data)
    dashboard_data,   \* the metrics computed so far, in main's order
    raised,           \* the exception that ended main ("" for none)
    lpc,              \* where a function fed event by event is: loop, done
    artist_time,      \* calculate_top_artists: the loop's state
    track_time,       \* calculate_top_tracks: the loop's state
    track_stats,      \* calculate_skipped_tracks: the loop's state
    top_artists, top_tracks, skipped_tracks    \* what the functions return

metrics_vars ==
    <<data, mpc, peak_info, dashboard_data, raised, lpc, artist_time, track_time,
      track_stats, top_artists, top_tracks, skipped_tracks>>

vars == <<enricher_vars, metrics_vars>>

\* The state of the job that is not running.
EnricherIdle ==
    /\ history = <<>>
    /\ catalog = [unknown_tracks |-> {}, relinked |-> {}, no_album |-> {},
                  unknown_artists |-> {}]
    /\ pc = "idle"
    /\ unique_tracks = <<>>
    /\ track_ids = <<>>
    /\ i = 0
    /\ all_track_data = <<>>
    /\ requests = <<>>
    /\ artists_map = <<>>
    /\ albums_map = <<>>
    /\ tracks_enriched = <<>>
    /\ artist_ids = <<>>
    /\ artists_enriched = <<>>
    /\ output = Null

MainIdle ==
    /\ data = <<>>
    /\ mpc = "idle"
    /\ peak_info = Null
    /\ dashboard_data = <<>>
    /\ raised = ""

LoopsIdle ==
    /\ lpc = "idle"
    /\ artist_time = NoTime
    /\ track_time = NoTime
    /\ track_stats = NoStats
    /\ top_artists = Null
    /\ top_tracks = Null
    /\ skipped_tracks = Null

\* The largest number of distinct tracks of a log of the model.
MaxTracks == 52

\* The status codes the service answers with: success and one failure.
StatusCodes == {HTTP_OK, 429}

PlayOf(k) ==
    Event(JStr(<<2025, 1, 4, 8>>), JInt(1000 * k), JStr(TrackUri(k)),
          JStr(<<"Track", ToString(k)>>), JStr(<<"Artist", ToString(k)>>),
          JStr(<<"Album", ToString((k + 1) \div 2)>>), JBool(FALSE), JStr(<<"trackdone">>))

\* Events the aggregator skips: a podcast episode, an event without a uri.
EpisodePlay ==
    [PlayOf(1) EXCEPT !.spotify_track_uri = JStr(<<"spotify", ":", "episode", ":", "1">>)]

NoUriPlay == [PlayOf(1) EXCEPT !.spotify_track_uri = Absent]

NullMsPlay == [PlayOf(1) EXCEPT !.ms_played = Null]

\* Logs of n distinct tracks: one play of each; with replays of tracks 1
\* and 2 and skipped events around them; with a null ms_played.
EnricherLog(n, shape) ==
    LET plays == [k \in 1..n |-> PlayOf(k)]
    IN  CASE shape = "plain" -> plays
          [] shape = "noisy" -> <<EpisodePlay, NoUriPlay>> \o plays \o <<PlayOf(2), PlayOf(1)>>
          [] shape = "null_ms" -> plays \o <<NullMsPlay>>

LogShapes == {"plain", "noisy", "null_ms"}

Catalogs ==
    [unknown_tracks : SUBSET {2}, relinked : SUBSET {3}, no_album : SUBSET {1},
     unknown_artists : SUBSET {ArtistId(2)}]

EnricherInit ==
    /\ \E n \in 0..MaxTracks, shape \in LogShapes : history = EnricherLog(n, shape)
    /\ catalog \in Catalogs
    /\ pc = "start"
    /\ unique_tracks = <<>>
    /\ track_ids = <<>>
    /\ i = 0
    /\ all_track_data = <<>>
    /\ requests = <<>>
    /\ artists_map = <<>>
    /\ albums_map = <<>>
    /\ tracks_enriched = <<>>
    /\ artist_ids = <<>>
    /\ artists_enriched = <<>>
    /\ output = Null
    /\ MainIdle
    /\ LoopsIdle

\* Lines 111-115: load the history and aggregate it; an exception ends main.
ExtractTracks ==
    /\ UNCHANGED metrics_vars
    /\ pc = "start"
    /\ LET r == extract_unique_tracks(history)
       IN  /\ pc' = IF r.exc = "" THEN "token" ELSE "raised"
           /\ unique_tracks' = r.tracks
    /\ UNCHANGED <<history, catalog, track_ids, i, all_track_data, requests, artists_map,
                   albums_map, tracks_enriched, artist_ids, artists_enriched, output>>

\* Lines 117-124: get_access_token; response.json()["access_token"] raises
\* KeyError when the token endpoint answers an error.
GetToken ==
    /\ UNCHANGED metrics_vars
    /\ pc = "token"
    /\ \E granted \in BOOLEAN :
         /\ pc' = IF granted THEN "tracks" ELSE "raised"
         /\ track_ids' = IF granted THEN DictKeys(unique_tracks) ELSE track_ids
    /\ i' = 0
    /\ all_track_data' = <<>>
    /\ UNCHANGED <<history, catalog, unique_tracks, requests, artists_map, albums_map,
                   tracks_enriched, artist_ids, artists_enriched, output>>

\* Lines 126-131: one iteration of the track batch loop.
FetchTrackBatch ==
    /\ UNCHANGED metrics_vars
    /\ pc = "tracks"
    /\ i < Len(track_ids)
    /\ \E status \in StatusCodes :
         LET batch == Slice(track_ids, i, i + BATCH_SIZE)
             response == TracksEndpoint(catalog, MaxTracks, request_ids(batch), status)
             tracks_data == fetch_tracks_batch(batch, response)
         IN  /\ requests' = Append(requests,
                   [endpoint |-> "tracks", ids |-> request_ids(batch),
                    status_code |-> status, returned |-> tracks_data])
             /\ all_track_data' = all_track_data \o tracks_data
             /\ i' = next_batch_start(i, response)
    /\ UNCHANGED <<history, catalog, pc, unique_tracks, track_ids, artists_map, albums_map,
                   tracks_enriched, artist_ids, artists_enriched, output>>

\* Lines 133-183: the track batches are over; enrich the fetched tracks.
EnrichTracks ==
    /\ UNCHANGED metrics_vars
    /\ pc = "tracks"
    /\ i >= Len(track_ids)
    /\ LET st == enrich_tracks(all_track_data, unique_tracks)
       IN  /\ artists_map' = st.artists_map
           /\ albums_map' = st.albums_map
           /\ tracks_enriched' = st.tracks_enriched
           /\ artist_ids' = DictKeys(st.artists_map)
    /\ artists_enriched' = <<>>
    /\ i' = 0
    /\ pc' = "artists"
    /\ UNCHANGED <<history, catalog, unique_tracks, track_ids, all_track_data, requests,
                   output>>

\* Lines 185-201: one iteration of the artist batch loop.
FetchArtistBatch ==
    /\ UNCHANGED metrics_vars
    /\ pc = "artists"
    /\ i < Len(artist_ids)
    /\ \E status \in StatusCodes :
         LET batch == Slice(artist_ids, i, i + BATCH_SIZE)
             response == ArtistsEndpoint(catalog, request_ids(batch), status)
             artists_data == fetch_artists_batch(batch, response)
         IN  /\ requests' = Append(requests,
                   [endpoint |-> "artists", ids |-> request_ids(batch),
                    status_code |-> status, returned |-> artists_data])
             /\ artists_enriched' = store_artists(artists_enriched, artists_data)
             /\ i' = next_batch_start(i, response)
    /\ UNCHANGED <<history, catalog, pc, unique_tracks, track_ids, all_track_data,
                   artists_map, albums_map, tracks_enriched, artist_ids, output>>

\* Lines 203-243: merge the listening stats and write the output.
WriteOutput ==
    /\ UNCHANGED metrics_vars
    /\ pc = "artists"
    /\ i >= Len(artist_ids)
    /\ LET albums == merge_stats(albums_map, album_stats_of(<<>>, tracks_enriched))
           artists == merge_stats(artists_enriched, artist_stats_of(<<>>, tracks_enriched))
       IN  /\ albums_map' = albums
           /\ artists_enriched' = artists
           /\ output' = build_output(tracks_enriched, albums, artists)
    /\ pc' = "done"
    /\ UNCHANGED <<history, catalog, unique_tracks, track_ids, i, all_track_data, requests,
                   artists_map, tracks_enriched, artist_ids>>

Init == EnricherInit

Next ==
    \/ ExtractTracks
    \/ GetToken
    \/ FetchTrackBatch
    \/ EnrichTracks
    \/ FetchArtistBatch
    \/ WriteOutput

Spec == Init /\ [][Next]_vars

(***************************************************************************)
(* generate_data.py, main, on the logs of up to MaxLogLen events           *)
(***************************************************************************)
MaxLogLen == 3

Song(k) == JStr(<<"Song", ToString(k)>>)
Artist(k) == JStr(<<"Artist", ToString(k)>>)
Album(k) == JStr(<<"Album", ToString(k)>>)
Ts(month, day, hour) == JStr(<<2025, month, day, hour>>)

\* The events of the logs: plays around midnight and around the turn of a
\* month and of the year in Pacific time, in winter and in summer time, of
\* 0, 15 and 45 minutes; and events with fields absent or null.
MetricEvents ==
    {
      \* Saturday 00:00 PST
      Event(Ts(1, 4, 8), JInt(900000), JStr(TrackUri(1)), Song(1), Artist(1), Album(1),
            JBool(FALSE), JStr(<<"trackdone">>)),
      \* Friday 23:00 PST (a Saturday in UTC)
      Event(Ts(1, 4, 7), JInt(2700000), JStr(TrackUri(2)), Song(2), Artist(2), Album(1),
            JBool(TRUE), JStr(<<"fwdbtn">>)),
      \* Monday 00:00 PDT (Sunday 23:00 if the offset were 8 hours)
      Event(Ts(6, 2, 7), JInt(900000), JStr(TrackUri(1)), Song(1), Artist(1), Album(1),
            Absent, JStr(<<"backbtn">>)),
      \* Sunday 23:00 PST (a Monday in UTC), nothing played
      Event(Ts(1, 6, 7), JInt(0), JStr(TrackUri(2)), Song(2), Artist(2), Album(1),
            JBool(FALSE), JStr(<<"endplay">>)),
      \* Tuesday 2024-12-31 19:00 PST (January in UTC)
      Event(Ts(1, 1, 3), JInt(2700000), JStr(TrackUri(1)), Song(1), Artist(1), Album(1),
            JBool(FALSE), JStr(<<"trackdone">>)),
      \* Friday 2025-02-28 21:00 PST (March in UTC)
      Event(Ts(3, 1, 5), JInt(900000), JStr(TrackUri(2)), Song(2), Artist(2), Album(1),
            JBool(FALSE), JStr(<<"trackdone">>)),
      \* {}
      Event(Absent, Absent, Absent, Absent, Absent, Absent, Absent, Absent),
      \* every field null
      Event(Null, Null, Null, Null, Null, Null, Null, Null),
      \* no timestamp, nothing played
      Event(Absent, JInt(0), JStr(TrackUri(1)), Song(1), Artist(1), Album(1),
            JBool(FALSE), JStr(<<"trackdone">>)),
      \* ms_played null
      Event(Ts(1, 4, 8), Null, JStr(TrackUri(1)), Song(1), Artist(1), Album(1),
            JBool(FALSE), JStr(<<"trackdone">>)),
      \* names null, ms_played absent
      Event(Ts(1, 4, 8), Absent, JStr(TrackUri(2)), Null, Null, Null, Null, Null)
    }

MetricLogs == UNION {[1..n -> MetricEvents] : n \in 0..MaxLogLen}

MetricsInit ==
    /\ EnricherIdle
    /\ LoopsIdle
    /\ data \in MetricLogs
    /\ mpc = "start"
    /\ peak_info = Null
    /\ dashboard_data = <<>>
    /\ raised = ""

\* Line 395: peak_info = find_peak_hours(data); an exception ends main.
FindPeakHours ==
    /\ mpc = "start"
    /\ LET r == find_peak_hours(data)
       IN  /\ mpc' = IF r.exc = "" THEN "build" ELSE "raised"
           /\ raised' = r.exc
           /\ peak_info' = r.value
    /\ UNCHANGED <<data, dashboard_data, lpc, artist_time, track_time, track_stats,
                   top_artists, top_tracks, skipped_tracks>>
    /\ UNCHANGED enricher_vars

\* Lines 397-416: the dict is built call by call; the first exception ends
\* main and no dict is bound.
BuildDashboard ==
    /\ mpc = "build"
    /\ LET returns == [j \in 1..Len(MetricNames) |-> Metric(MetricNames[j], data)]
           failed == {j \in 1..Len(MetricNames) : returns[j].exc # ""}
           first == CHOOSE j \in failed : \A k \in failed : j <= k
       IN  IF failed = {}
           THEN /\ dashboard_data' =
                     [j \in 1..Len(MetricNames) |-> [k |-> MetricNames[j], v |-> returns[j].value]]
                     \o <<[k |-> "peak_hours", v |-> peak_info],
                          [k |-> "metadata",
                           v |-> [timezone |-> "America/Los_Angeles (Pacific Time)",
                                  data_source |-> "Spotify Extended Streaming History",
                                  min_plays_for_skip_rate |-> 10]]>>
                /\ mpc' = "write"
                /\ raised' = raised
           ELSE /\ dashboard_data' = dashboard_data
                /\ mpc' = "raised"
                /\ raised' = returns[first].exc
    /\ UNCHANGED <<data, peak_info, lpc, artist_time, track_time, track_stats,
                   top_artists, top_tracks, skipped_tracks>>
    /\ UNCHANGED enricher_vars

\* Lines 418-426: write the report.
WriteDashboard ==
    /\ mpc = "write"
    /\ mpc' = "done"
    /\ UNCHANGED <<data, peak_info, dashboard_data, raised, lpc, artist_time, track_time,
                   track_stats, top_artists, top_tracks, skipped_tracks>>
    /\ UNCHANGED enricher_vars

MetricsNext == FindPeakHours \/ BuildDashboard \/ WriteDashboard

SpecMetrics == MetricsInit /\ [][MetricsNext]_vars

(***************************************************************************)
(* calculate_top_artists and calculate_top_tracks, fed event by event      *)
(***************************************************************************)
\* The most plays (events with an artist name) of a log.
MaxTopPlays == 6

RECURSIVE SumOver(_, _)
SumOver(Val(_), d) == IF d = <<>> THEN 0 ELSE Val(Head(d)) + SumOver(Val, Tail(d))

PlaysOf(entry) == entry.v.plays

\* The next event of the log: nothing or 15 minutes played, with or without
\* a track name, with no artist, an artist heard before or a new one.  (The
\* functions compare names for equality only: the n-th new artist is named
\* Artist n.)
TopEvents(known) ==
    {Event(Ts(1, 4, 8), ms, Absent, track, artist, Absent, Absent, Absent) :
        ms \in {JInt(0), JInt(900000)},
        track \in {Absent, Song(1)},
        artist \in {Absent} \cup {Artist(k) : k \in 1..(known + 1)}}

TopInit ==
    /\ EnricherIdle
    /\ MainIdle
    /\ lpc = "loop"
    /\ artist_time = NoTime
    /\ track_time = NoTime
    /\ track_stats = NoStats
    /\ top_artists = Null
    /\ top_tracks = Null
    /\ skipped_tracks = Null

\* One more event goes through the loops (lines 76-80 and 101-109).
TopFeed ==
    /\ lpc = "loop"
    /\ SumOver(PlaysOf, artist_time.time) < MaxTopPlays
    /\ \E item \in TopEvents(Len(artist_time.time)) :
         /\ artist_time' = top_artists_step(artist_time, item)
         /\ track_time' = top_tracks_step(track_time, item)
    /\ UNCHANGED <<data, mpc, peak_info, dashboard_data, raised, lpc, track_stats,
                   top_artists, top_tracks, skipped_tracks>>
    /\ UNCHANGED enricher_vars

\* The log is over: lines 82-94 and 111-124.
TopReturn ==
    /\ lpc = "loop"
    /\ top_artists' = top_artists_result(artist_time, TOP_LIMIT)
    /\ top_tracks' = top_tracks_result(track_time, TOP_LIMIT)
    /\ lpc' = "done"
    /\ UNCHANGED <<data, mpc, peak_info, dashboard_data, raised, artist_time, track_time,
                   track_stats, skipped_tracks>>
    /\ UNCHANGED enricher_vars

TopNext == TopFeed \/ TopReturn

SpecTop == TopInit /\ [][TopNext]_vars

(***************************************************************************)
(* calculate_skipped_tracks, fed event by event                            *)
(***************************************************************************)
\* The most plays (events with a track and an artist name) of a log.
MaxSkipPlays == 23

TotalPlaysOf(entry) == entry.v.total_plays

SkipEvents ==
    {Event(Ts(1, 4, 8), JInt(900000), Absent, track, Artist(1), Absent, skipped, reason) :
        track \in {Absent, Song(1), Song(2)},
        skipped \in {Absent, Null, JBool(FALSE), JBool(TRUE)},
        reason \in {Absent, Null, JStr(<<"trackdone">>), JStr(<<"fwdbtn">>),
                    JStr(<<"backbtn">>)}}

SkipInit == TopInit

\* One more event goes through the loop (lines 260-273).
SkipFeed ==
    /\ lpc = "loop"
    /\ SumOver(TotalPlaysOf, track_stats.stats) < MaxSkipPlays
    /\ \E item \in SkipEvents : track_stats' = skipped_step(track_stats, item)
    /\ UNCHANGED <<data, mpc, peak_info, dashboard_data, raised, lpc, artist_time,
                   track_time, top_artists, top_tracks, skipped_tracks>>
    /\ UNCHANGED enricher_vars

\* The log is over: lines 275-288, with main's min_plays = 10.
SkipReturn ==
    /\ lpc = "loop"
    /\ skipped_tracks' = skipped_result(track_stats, MIN_PLAYS, SKIPPED_LIMIT)
    /\ lpc' = "done"
    /\ UNCHANGED <<data, mpc, peak_info, dashboard_data, raised, artist_time, track_time,
                   track_stats, top_artists, top_tracks>>
    /\ UNCHANGED enricher_vars

SkipNext == SkipFeed \/ SkipReturn

SpecSkip == SkipInit /\ [][SkipNext]_vars

(***************************************************************************)
(* Properties of the enricher's run                                        *)
(***************************************************************************)
RequestsTo(endpoint) == SelectSeq(requests, LAMBDA r : r.endpoint = endpoint)

RequestedIds(endpoint) ==
    Concat([j \in 1..Len(RequestsTo(endpoint)) |-> RequestsTo(endpoint)[j].ids])

Failed(r) == r.status_code # HTTP_OK

\* C1: a batch that gets a non-success response contributes zero records
\* (what comes back from the fetcher is empty, and the fetched data are the
\* returned records only), no id is sent in two requests (no retry), the run
\* is never ended by a batch response (it can only end before the first
\* request), each loop has requested exactly the batches before its index,
\* and once the output is written every batch of track ids and of artist
\* ids was requested.
C1_FailedBatchSkippedNoRetryNoAbort ==
    /\ \A j \in 1..Len(requests) : Failed(requests[j]) => requests[j].returned = <<>>
    /\ pc \in {"tracks", "artists", "done"} =>
         all_track_data =
           Concat([j \in 1..Len(RequestsTo("tracks")) |-> RequestsTo("tracks")[j].returned])
    /\ \A j, k \in 1..Len(requests) :
         (j < k /\ requests[j].endpoint = requests[k].endpoint)
            => Range(requests[j].ids) \cap Range(requests[k].ids) = {}
    /\ pc = "raised" => requests = <<>>
    /\ pc = "tracks" => RequestedIds("tracks") = Slice(track_ids, 0, i)
    /\ pc = "artists" => RequestedIds("artists") = Slice(artist_ids, 0, i)
    /\ pc \in {"artists", "done"} => RequestedIds("tracks") = track_ids
    /\ pc = "done" => (RequestedIds("artists") = artist_ids /\ output # Null)

\* A run that wrote its output after the first of two track batches and an
\* artist batch had failed.
C1_Witness ==
    /\ pc = "done"
    /\ Len(RequestsTo("tracks")) = 2
    /\ Failed(RequestsTo("tracks")[1])
    /\ ~Failed(RequestsTo("tracks")[2])
    /\ \E j \in 1..Len(RequestsTo("artists")) : Failed(RequestsTo("artists")[j])
    /\ output.tracks # <<>>

ReturnedIds(r) == {r.returned[j].id : j \in {x \in 1..Len(r.returned) : r.returned[x].tag # "null"}}

\* C7: in the written output every track with a non-null album_id has an
\* album with that id in the albums collection, and every artist of the
\* artists collection was returned by a successful artist batch that
\* contained its id.
C7_AlbumsPresentArtistsOnlyIfFetched ==
    pc = "done" =>
      /\ \A t \in Range(output.tracks) :
           t.album_id.tag # "null" => \E a \in Range(output.albums) : a.id = t.album_id.v
      /\ \A a \in Range(output.artists) :
           \E r \in Range(RequestsTo("artists")) :
              ~Failed(r) /\ a.id \in Range(r.ids) /\ a.id \in ReturnedIds(r)

\* An output with a track without album, a track with an album, an artist
\* that was fetched and an artist of a track whose batch failed.
C7_Witness ==
    /\ pc = "done"
    /\ \E t \in Range(output.tracks) : t.album_id.tag = "null"
    /\ \E t \in Range(output.tracks) : t.album_id.tag # "null"
    /\ output.artists # <<>>
    /\ \E r \in Range(RequestsTo("artists")) : Failed(r)
    /\ \E t \in Range(output.tracks) : \E id \in Range(t.artist_ids) :
          \A a \in Range(output.artists) : a.id # id

\* The track identifiers of the play events.
EventTrackIds ==
    {id \in KeySet(unique_tracks) :
        \E e \in Range(history) : e.spotify_track_uri = JStr(TRACK_URI_PREFIX \o id)}

OnlyReferencedEntities ==
    /\ \A t \in Range(output.tracks) : t.id \in EventTrackIds
    /\ \A a \in Range(output.albums) :
         \E t \in Range(output.tracks) : t.album_id = JStr(a.id)
    /\ \A a \in Range(output.artists) :
         \E t \in Range(output.tracks) : a.id \in Range(t.artist_ids)

\* Every record the service returned carries an id its request asked for.
ServiceAnswersRequestedIds ==
    \A r \in Range(requests) : ReturnedIds(r) \subseteq Range(r.ids)

\* C8 as stated: whatever the service answers, every track of the output is
\* the track of a play event, every album the album of such a track, every
\* artist a contributing artist of such a track.
C8_Original == pc = "done" => OnlyReferencedEntities

\* C8: when every record the service returned carries an id that its
\* request asked for, every track of the output is the track of a play
\* event, every album the album of an output track and every artist a
\* contributing artist of an output track.
C8_OnlyReferencedWhenServiceFaithful ==
    (pc = "done" /\ ServiceAnswersRequestedIds) => OnlyReferencedEntities

C8_Witness ==
    /\ pc = "done"
    /\ ServiceAnswersRequestedIds
    /\ Len(output.tracks) > BATCH_SIZE
    /\ output.albums # <<>>
    /\ output.artists # <<>>
    /\ \E e \in Range(history) : e.spotify_track_uri.tag = "absent"

(***************************************************************************)
(* Properties of calculate_skipped_tracks                                  *)
(***************************************************************************)
\* C2 as stated: every entry returned with min_plays = 10 has at least 10
\* plays and a reported skip_rate strictly greater than 30.
C2_Original ==
    lpc = "done" =>
      \A entry \in Range(skipped_tracks.value) :
         entry.total_plays >= MIN_PLAYS /\ entry.skip_rate > 30

\* C2: every entry returned with min_plays = 10 is a track of the log with
\* at least 10 plays of which strictly more than 30 % were skipped; its
\* reported skip_rate, that ratio rounded to a whole percentage, is at
\* least 30.
C2_MinPlaysAndRatioAboveThirtyPercent ==
    lpc = "done" =>
      \A entry \in Range(skipped_tracks.value) :
         /\ entry.total_plays >= MIN_PLAYS
         /\ 10 * entry.skipped > 3 * entry.total_plays
         /\ entry.skip_rate >= 30
         /\ \E t \in Range(track_stats.stats) :
               /\ t.v.name = entry.track /\ t.v.artist = entry.artist
               /\ t.v.total_plays = entry.total_plays /\ t.v.skipped = entry.skipped

\* A track skipped 7 times in 23 plays is returned with skip_rate 30, next
\* to the other track, left out for its plays.
C2_Witness ==
    /\ lpc = "done"
    /\ \E entry \in Range(skipped_tracks.value) :
          entry.skipped = 7 /\ entry.total_plays = 23 /\ entry.skip_rate = 30

(***************************************************************************)
(* Properties of calculate_top_artists and calculate_top_tracks            *)
(***************************************************************************)
\* The summed milliseconds of the entries of the two returned lists.
ArtistMs(entry) == DictGet(artist_time.time, entry.artist).ms
TrackMs(entry) == DictGet(track_time.time, TrackKey(entry.track, entry.artist)).ms

Returned(result) == result # Null /\ result.exc = ""

\* C3 as stated: the returned lists have at most N = 5 entries and each
\* entry's summed ms is strictly greater than that of the entry after it.
C3_Original ==
    /\ Returned(top_artists) =>
         /\ Len(top_artists.value) <= TOP_LIMIT
         /\ \A j \in 1..(Len(top_artists.value) - 1) :
               ArtistMs(top_artists.value[j]) > ArtistMs(top_artists.value[j + 1])
    /\ Returned(top_tracks) =>
         /\ Len(top_tracks.value) <= TOP_LIMIT
         /\ \A j \in 1..(Len(top_tracks.value) - 1) :
               TrackMs(top_tracks.value[j]) > TrackMs(top_tracks.value[j + 1])

\* C3: the returned lists have at most N = 5 entries and each entry's summed
\* ms is greater than or equal to that of the entry after it.
C3_AtMostNAndDescending ==
    /\ Returned(top_artists) =>
         /\ Len(top_artists.value) <= TOP_LIMIT
         /\ \A j \in 1..(Len(top_artists.value) - 1) :
               ArtistMs(top_artists.value[j]) >= ArtistMs(top_artists.value[j + 1])
    /\ Returned(top_tracks) =>
         /\ Len(top_tracks.value) <= TOP_LIMIT
         /\ \A j \in 1..(Len(top_tracks.value) - 1) :
               TrackMs(top_tracks.value[j]) >= TrackMs(top_tracks.value[j + 1])

\* Six artists and six tracks, of which five are returned, the first two
\* with different sums and two later ones with equal sums.
C3_Witness ==
    /\ Returned(top_artists) /\ Returned(top_tracks)
    /\ Len(artist_time.time) > TOP_LIMIT /\ Len(track_time.time) > TOP_LIMIT
    /\ Len(top_artists.value) = TOP_LIMIT /\ Len(top_tracks.value) = TOP_LIMIT
    /\ ArtistMs(top_artists.value[1]) > ArtistMs(top_artists.value[2])
    /\ ArtistMs(top_artists.value[2]) = ArtistMs(top_artists.value[3])
    /\ TrackMs(top_tracks.value[1]) > TrackMs(top_tracks.value[2])
    /\ TrackMs(top_tracks.value[2]) = TrackMs(top_tracks.value[3])

\* C4 as stated: when the log has an event with an artist name (with a
\* track and an artist name), whatever its ms_played values, the function
\* returns a non-empty list whose first entry has pct = 100.
C4_Original ==
    lpc = "done" =>
      /\ artist_time.time # <<>> =>
           /\ top_artists.exc = ""
           /\ top_artists.value # <<>>
           /\ top_artists.value[1].pct = 100
      /\ track_time.time # <<>> =>
           /\ top_tracks.exc = ""
           /\ top_tracks.value # <<>>
           /\ top_tracks.value[1].pct = 100

(***************************************************************************)
(* Properties of calculate_weekday_vs_weekend                              *)
(***************************************************************************)
\* The timestamps of the logs that fall on a Saturday or a Sunday of the
\* Pacific calendar: 2025-01-04T08Z is Saturday 00:00 and 2025-01-06T07Z is
\* Sunday 23:00 in Los Angeles.
PacificWeekendTimestamps == {Ts(1, 4, 8), Ts(1, 6, 7)}

HasTimestamp(item) == Truthy(Get(item, "ts", Null))

CountOf(P(_), log) == Cardinality({j \in 1..Len(log) : P(log[j])})

OnPacificWeekend(item) == HasTimestamp(item) /\ item.ts \in PacificWeekendTimestamps

\* The value computed for a key of the report.
DashboardAt(name) == DictGet(dashboard_data, name)

\* C5: in the result of calculate_weekday_vs_weekend the weekend bucket
\* counts the events whose timestamp falls on a Pacific Saturday or Sunday,
\* the weekday bucket the other events with a timestamp, and events without
\* a timestamp are in neither: the two total_plays add up to the number of
\* events with a timestamp.
C5_EveryTimestampedEventInOneBucket ==
    LET r == calculate_weekday_vs_weekend(data)
    IN  r.exc = "" =>
          /\ r.value.weekend.total_plays = CountOf(OnPacificWeekend, data)
          /\ r.value.weekday.total_plays + r.value.weekend.total_plays
               = CountOf(HasTimestamp, data)
          /\ mpc \in {"write", "done"} => DashboardAt("weekday_vs_weekend") = r.value

\* A report of a log with a weekday play, a weekend play and an event
\* without timestamp.
C5_Witness ==
    /\ mpc = "done"
    /\ DashboardAt("weekday_vs_weekend").weekday.total_plays = 1
    /\ DashboardAt("weekday_vs_weekend").weekend.total_plays = 1
    /\ Len(data) = 3

(***************************************************************************)
(* Properties of calculate_monthly_trend                                   *)
(***************************************************************************)
\* C6: the result of calculate_monthly_trend is in month order; its first
\* entry has delta 0 and delta_pct 0, and every other entry has delta equal
\* to its hours minus the hours of the entry before it in the result, the
\* preceding month that has plays.
C6_DeltaAgainstPrecedingEntry ==
    LET r == calculate_monthly_trend(data)
    IN  (r.exc = "" /\ r.value # <<>>) =>
          /\ r.value[1].delta = 0
          /\ r.value[1].delta_pct = 0
          /\ \A j \in 2..Len(r.value) :
                /\ r.value[j - 1].month < r.value[j].month
                /\ r.value[j].delta = r.value[j].hours - r.value[j - 1].hours
          /\ mpc \in {"write", "done"} => DashboardAt("monthly_trend") = r.value

\* A report with three months that are not consecutive, whose third delta
\* is not the difference to the first month.
C6_Witness ==
    /\ mpc = "done"
    /\ LET trend == DashboardAt("monthly_trend")
       IN  /\ Len(trend) = 3
           /\ trend[2].month > trend[1].month + 1
           /\ trend[2].delta # 0
           /\ trend[3].delta # trend[3].hours - trend[1].hours

(***************************************************************************)
(* Properties of find_peak_hours                                           *)
(***************************************************************************)
NoTimestamps == \A j \in 1..Len(data) : ~HasTimestamp(data[j])

\* C9 as stated: when the log is empty or no event has a timestamp,
\* find_peak_hours returns a result with peak_hour 0 and no top_hours, and
\* main goes on past its call.
C9_Original ==
    NoTimestamps =>
      /\ find_peak_hours(data).exc = ""
      /\ find_peak_hours(data).value.peak_hour = 0
      /\ find_peak_hours(data).value.top_hours = <<>>
      /\ mpc # "raised"

(***************************************************************************)
(* Absent and null fields                                                  *)
(***************************************************************************)
HasAbsentOrNullField(item) ==
    \E f \in EventFields : Get(item, f, Null) = Null

\* C10 as stated: on a log with an event that has a field absent or null,
\* extract_unique_tracks and every metric function return a result without
\* raising, and main builds its report.
C10_Original ==
    (\E j \in 1..Len(data) : HasAbsentOrNullField(data[j])) =>
      /\ extract_unique_tracks(data).exc = ""
      /\ \A j \in 1..Len(MetricNames) : Metric(MetricNames[j], data).exc = ""
      /\ find_peak_hours(data).exc = ""
      /\ mpc # "raised"

(***************************************************************************)
(* Batches and deduplication of the enricher's run                         *)
(***************************************************************************)
\* The track ids of the log: the last segment of every track uri.
TrackIdsOfLog ==
    {LastSegment(e.spotify_track_uri.v) :
        e \in {x \in Range(history) :
                 /\ Truthy(Get(x, "spotify_track_uri", Null))
                 /\ StartsWith(x.spotify_track_uri.v, TRACK_URI_PREFIX)}}

FetchedTracks == {t \in Range(all_track_data) : t.tag # "null"}

\* The artist ids on the fetched track records.
DiscoveredArtistIds == UNION {{a.id : a \in Range(t.artists)} : t \in FetchedTracks}

\* The album ids on the fetched track records.
FetchedAlbumIds == {t.album.id.v : t \in {x \in FetchedTracks : x.album.tag # "absent"}}

NoRepeats(seq) == Cardinality(Range(seq)) = Len(seq)

\* C11: every request to the catalog service carries between 1 and 50 ids;
\* no track id and no artist id is sent twice, in one request or in two;
\* once the track batches are over the ids sent are the track ids of the
\* log, each once, and once the artist batches are over the artist ids sent
\* are those on the fetched tracks, each once; every album id on the fetched
\* tracks has exactly one album record, in albums_map and in the output.
C11_AtMostFiftyIdsEachSentOnce ==
    /\ \A r \in Range(requests) :
         /\ Len(r.ids) >= 1 /\ Len(r.ids) <= BATCH_SIZE
         /\ r.endpoint \in {"tracks", "artists"}
    /\ NoRepeats(RequestedIds("tracks"))
    /\ Range(RequestedIds("tracks")) \subseteq TrackIdsOfLog
    /\ pc \in {"artists", "done"} => Range(RequestedIds("tracks")) = TrackIdsOfLog
    /\ NoRepeats(RequestedIds("artists"))
    /\ Range(RequestedIds("artists")) \subseteq DiscoveredArtistIds
    /\ pc = "done" => Range(RequestedIds("artists")) = DiscoveredArtistIds
    /\ pc \in {"artists", "done"} =>
         /\ KeySet(albums_map) = FetchedAlbumIds
         /\ Len(albums_map) = Cardinality(FetchedAlbumIds)
    /\ pc = "done" =>
         /\ {a.id : a \in Range(output.albums)} = FetchedAlbumIds
         /\ Len(output.albums) = Cardinality(FetchedAlbumIds)

\* A finished run on a log with replayed tracks: two track batches and two
\* artist batches, the first of 50 ids; artist 2 is on tracks 1 and 2 and
\* album 1 is the album of both.
C11_Witness ==
    /\ pc = "done"
    /\ Len(history) > Cardinality(TrackIdsOfLog) + 2
    /\ Len(RequestsTo("tracks")) = 2
    /\ Len(RequestsTo("artists")) = 2
    /\ Len(RequestsTo("tracks")[1].ids) = BATCH_SIZE
    /\ Len(RequestsTo("artists")[1].ids) = BATCH_SIZE
    /\ \E t, u \in FetchedTracks :
          /\ t.id = TrackId(1) /\ u.id = TrackId(2)
          /\ t.album.tag # "absent" /\ t.album.id = u.album.id
          /\ ArtistId(2) \in {a.id : a \in Range(t.artists)}
          /\ ArtistId(2) \in {a.id : a \in Range(u.artists)}

(***************************************************************************)
(* The listening stats of the albums and artists of the output             *)
(***************************************************************************)
RECURSIVE TotalMs(_)
TotalMs(tracks) ==
    IF tracks = <<>> THEN 0 ELSE Head(tracks).ms_played + TotalMs(Tail(tracks))

RECURSIVE TotalPlayCount(_)
TotalPlayCount(tracks) ==
    IF tracks = <<>> THEN 0 ELSE Head(tracks).play_count + TotalPlayCount(Tail(tracks))

\* The output tracks that list the artist, and those of the album.
TracksListing(artist_id) ==
    SelectSeq(output.tracks, LAMBDA t : artist_id \in Range(t.artist_ids))

TracksOfAlbum(album_id) ==
    SelectSeq(output.tracks, LAMBDA t : t.album_id = JStr(album_id))

\* C12: in the written output every artist record carries ms_played and
\* play_count, the sums of those of the output tracks that list the artist
\* (a track with two artists counts toward both), and every album record
\* carries the sums of those of the output tracks whose album_id is its id.
C12_StatsAreSumsOverOutputTracks ==
    pc = "done" =>
      /\ \A a \in Range(output.artists) :
           /\ a.ms_played = JInt(TotalMs(TracksListing(a.id)))
           /\ a.play_count = JInt(TotalPlayCount(TracksListing(a.id)))
      /\ \A b \in Range(output.albums) :
           /\ b.ms_played = JInt(TotalMs(TracksOfAlbum(b.id)))
           /\ b.play_count = JInt(TotalPlayCount(TracksOfAlbum(b.id)))

\* An output in which tracks 1 and 2, both replayed, share an album; track 1
\* lists artists 1 and 2 and track 2 lists artist 2, whose record has the
\* plays of both; and a track the log does not reference has no plays.
C12_Witness ==
    /\ pc = "done"
    /\ \E a \in Range(output.artists) :
          /\ a.id = ArtistId(2)
          /\ Len(TracksListing(a.id)) = 2
          /\ Len(TracksListing(a.id)[1].artist_ids) = 2
          /\ a.play_count = JInt(4)
          /\ a.ms_played = JInt(6000)
    /\ \E b \in Range(output.albums) :
          /\ Len(TracksOfAlbum(b.id)) = 2
          /\ b.play_count = JInt(4)
    /\ \E a \in Range(output.artists) : a.play_count = JInt(0)
    /\ Len(output.tracks) > BATCH_SIZE

(***************************************************************************)
(* extract_unique_tracks on the logs of up to MaxHistoryLen events         *)
(***************************************************************************)
MaxHistoryLen == 3

\* The events of the logs: plays of tracks 1 and 2; another play of track 1
\* under other names; a play of track 2 without ms_played and names; events
\* with a uri that is absent, null, empty or not a track's; a null ms_played.
ExtractEvents ==
    {PlayOf(1),
     PlayOf(2),
     [PlayOf(1) EXCEPT !.ms_played = JInt(500),
                       !.master_metadata_track_name = JStr(<<"Track", "1", "(live)">>),
                       !.master_metadata_album_album_name = JStr(<<"Live">>)],
     [PlayOf(2) EXCEPT !.ms_played = Absent,
                       !.master_metadata_track_name = Absent,
                       !.master_metadata_album_artist_name = Absent,
                       !.master_metadata_album_album_name = Absent],
     EpisodePlay,
     NoUriPlay,
     [PlayOf(1) EXCEPT !.spotify_track_uri = Null],
     [PlayOf(2) EXCEPT !.spotify_track_uri = JStr(<<>>)],
     [PlayOf(2) EXCEPT !.spotify_track_uri = JStr(<<"track", ":", "2">>)],
     NullMsPlay}

ExtractLogs == UNION {[1..n -> ExtractEvents] : n \in 0..MaxHistoryLen}

ExtractInit ==
    /\ history \in ExtractLogs
    /\ catalog = [unknown_tracks |-> {}, relinked |-> {}, no_album |-> {},
                  unknown_artists |-> {}]
    /\ pc = "start"
    /\ unique_tracks = <<>>
    /\ track_ids = <<>>
    /\ i = 0
    /\ all_track_data = <<>>
    /\ requests = <<>>
    /\ artists_map = <<>>
    /\ albums_map = <<>>
    /\ tracks_enriched = <<>>
    /\ artist_ids = <<>>
    /\ artists_enriched = <<>>
    /\ output = Null
    /\ MainIdle
    /\ LoopsIdle

ExtractNext == ExtractTracks

SpecExtract == ExtractInit /\ [][ExtractNext]_vars

\* Whether the event's uri is a text that begins "spotify:track:".
IsTrackEvent(item) ==
    /\ item.spotify_track_uri.tag = "str"
    /\ Len(item.spotify_track_uri.v) >= 4
    /\ item.spotify_track_uri.v[1] = "spotify"
    /\ item.spotify_track_uri.v[2] = ":"
    /\ item.spotify_track_uri.v[3] = "track"
    /\ item.spotify_track_uri.v[4] = ":"

\* The id a track event references: what follows the prefix.
IdOfEvent(item) == SubSeq(item.spotify_track_uri.v, 5, Len(item.spotify_track_uri.v))

EventsOf(log, id) == SelectSeq(log, LAMBDA e : IsTrackEvent(e) /\ IdOfEvent(e) = id)

RECURSIVE SumOfMs(_)
SumOfMs(log) ==
    IF log = <<>> THEN 0
    ELSE (IF Head(log).ms_played.tag = "int" THEN Head(log).ms_played.v ELSE 0)
         + SumOfMs(Tail(log))

Permuted(log, p) == [j \in 1..Len(log) |-> log[p[j]]]

\* The ms_played and play_count of every track of a result.
Counts(tracks) ==
    {<<t.k, t.v.ms_played, t.v.play_count>> : t \in Range(tracks)}

Names(tracks) ==
    {<<t.k, t.v.track_name, t.v.artist_name, t.v.album_name>> : t \in Range(tracks)}

\* C13: the events whose uri is absent, null, empty or not a track's have no
\* effect on what extract_unique_tracks does and raise nothing; when it
\* returns, its tracks are the ids of the other events, each with ms_played
\* the sum of the ms_played of its events and play_count their number; and
\* every permutation of the log gives the same ids with the same two values
\* (or raises as well).
C13_SkipsSumsAndOrderIndependence ==
    LET r == extract_unique_tracks(history)
        kept == SelectSeq(history, IsTrackEvent)
    IN  /\ extract_unique_tracks(kept) = r
        /\ kept = <<>> => r = [exc |-> "", tracks |-> <<>>]
        /\ r.exc = "" =>
             /\ KeySet(r.tracks) = {IdOfEvent(e) : e \in Range(kept)}
             /\ \A t \in Range(r.tracks) :
                   /\ t.v.ms_played = SumOfMs(EventsOf(history, t.k))
                   /\ t.v.play_count = Len(EventsOf(history, t.k))
        /\ \A p \in Permutations(1..Len(history)) :
             LET q == extract_unique_tracks(Permuted(history, p))
             IN  /\ q.exc = r.exc
                 /\ r.exc = "" => Counts(q.tracks) = Counts(r.tracks)
        /\ pc = "token" => unique_tracks = r.tracks

\* The aggregate of a log of a skipped event and two plays of track 1 under
\* different names and durations, whose names are other in another order.
C13_Witness ==
    /\ pc = "token"
    /\ Len(history) = 3
    /\ Len(unique_tracks) = 1
    /\ unique_tracks[1].v.play_count = 2
    /\ unique_tracks[1].v.ms_played = 1500
    /\ \E p \in Permutations(1..Len(history)) :
          Names(extract_unique_tracks(Permuted(history, p)).tracks) # Names(unique_tracks)

=============================================================================
